---- MODULE Spec2Model ----
(***************************************************************************)
(* Model of the campaign-brief generator's LLM service                     *)
(* (src/generator/services/llm.py): provider selection, the three provider *)
(* adapters, the response normaliser/validator parse_json_response and the *)
(* orchestrator generate_campaign_brief; and of the views around it        *)
(* (src/generator/views.py): generate_brief with check_rate_limit, and the *)
(* debug-only switch set_provider.                                         *)
(*                                                                         *)
(* Spec: one generate_campaign_brief call.  ParseSpec: parse_json_response *)
(* on sampled texts.  SwitchSpec: a call interleaved with set_provider.    *)
(* RateSpec: worker threads serving generate_brief requests.               *)
(*                                                                         *)
(* Text is modelled as a sequence of lexemes (tokens).  A Python str is a  *)
(* sequence of tokens; three backticks are the one token "FENCE", "json"   *)
(* is one token, a word is the token "w", whitespace is the token " ".     *)
(* Python indices are 0-based and                                          *)
(* the string operations below keep Python's conventions (find returns -1, *)
(* a negative slice bound counts from the end).                            *)
(***************************************************************************)
EXTENDS FiniteSets, Integers, Sequences, TLC

VARIABLES
    AI_PROVIDER,          \* settings.AI_PROVIDER
    AI_PROVIDER_API_KEY,  \* settings.AI_PROVIDER_API_KEY ("" when unset)
    pytest_loaded,        \* "pytest" in sys.modules
    pc,                   \* position of the generate_campaign_brief call
    args,                 \* its arguments: brand, api_token
    provider,             \* its local variable provider
    response_text,        \* raw text returned by the adapter
    metrics,              \* metrics dict returned by the adapter
    prompts_built,        \* build_system_prompt/build_user_prompt were called
    network_calls,        \* outbound provider calls issued by this request
    result,               \* what the call gave its caller: a value or an exception
    p_pc,                 \* parse_json_response alone: position
    p_in,                 \* its input: the object serialised and how it is wrapped
    p_text,               \* the raw text handed to parse_json_response
    p_out,                \* its outcome
    token,                \* call_openai_api's local variable token
    cfg_seen,             \* the settings as they stood when line 331 read AI_PROVIDER
    DEBUG,                \* settings.DEBUG
    cache,                \* django cache: rate-limit counter of every client IP that has one
    sp_pc,                \* position of the set_provider handler
    sp_req,               \* the payload set_provider is working on
    sp_status,            \* HTTP status of set_provider's last reply (0: none yet)
    sp_calls,             \* set_provider requests received so far
    v_pc,                 \* generate_brief, per worker thread: position
    v_ip,                 \* client IP of the worker's request
    v_body,               \* what the worker's request carries
    v_cur,                \* check_rate_limit's local current_requests
    v_status,             \* HTTP status of the worker's last reply (0: none yet)
    v_called,             \* whether the worker's request has called generate_campaign_brief
    admitted              \* per IP: requests line 136 allowed in the running window

vars == <<AI_PROVIDER, AI_PROVIDER_API_KEY, pytest_loaded, pc, args, provider,
          response_text, metrics, prompts_built, network_calls, result,
          p_pc, p_in, p_text, p_out, token, cfg_seen, DEBUG, cache, sp_pc, sp_req,
          sp_status, sp_calls, v_pc, v_ip, v_body, v_cur, v_status, v_called, admitted>>

orchVars == <<AI_PROVIDER, AI_PROVIDER_API_KEY, pytest_loaded, pc, args, provider,
              response_text, metrics, prompts_built, network_calls, result,
              token, cfg_seen>>

parseVars == <<p_pc, p_in, p_text, p_out>>

switchVars == <<DEBUG, sp_pc, sp_req, sp_status, sp_calls>>

rateVars == <<v_pc, v_ip, v_body, v_cur, v_status, v_called, admitted>>

\* what generate_campaign_brief and parse_json_response never touch
serverVars == <<cache, switchVars, rateVars>>

-----------------------------------------------------------------------------
(* Bounds of the model.                                                    *)

\* largest number of words in a sampled brief (the threshold of 10 lies inside)
MaxBriefWords == 11
\* largest number of entries in a sampled angles / criteria list
MaxItems == 4
\* largest token count a provider reports
MaxTokens == 1

-----------------------------------------------------------------------------
(* Python str operations on token sequences (0-based positions).           *)

WS == " "

IsAt(s, sub, i) ==
    /\ i >= 0
    /\ i + Len(sub) <= Len(s)
    /\ \A k \in 1..Len(sub) : s[i + k] = sub[k]

\* str.find(sub, start): lowest position >= start where sub occurs, else -1
PyFind(s, sub, start) ==
    LET hits == {i \in start..Len(s) : IsAt(s, sub, i)}
    IN  IF hits = {} THEN -1 ELSE CHOOSE i \in hits : \A j \in hits : i <= j

\* str.rfind(sub): highest position where sub occurs, else -1
PyRFind(s, sub) ==
    LET hits == {i \in 0..Len(s) : IsAt(s, sub, i)}
    IN  IF hits = {} THEN -1 ELSE CHOOSE i \in hits : \A j \in hits : i >= j

\* sub in s
PyIn(sub, s) == PyFind(s, sub, 0) # -1

\* s[start:end], a negative bound counting from the end
PySlice(s, start, end) ==
    LET n  == Len(s)
        st == IF start < 0 THEN (IF n + start < 0 THEN 0 ELSE n + start)
              ELSE (IF start > n THEN n ELSE start)
        en == IF end < 0 THEN (IF n + end < 0 THEN 0 ELSE n + end)
              ELSE (IF end > n THEN n ELSE end)
    IN  IF st >= en THEN <<>> ELSE SubSeq(s, st + 1, en)

\* str.strip()
PyStrip(s) ==
    LET solid == {i \in 1..Len(s) : s[i] # WS}
    IN  IF solid = {} THEN <<>>
        ELSE SubSeq(s, CHOOSE i \in solid : \A j \in solid : i <= j,
                       CHOOSE i \in solid : \A j \in solid : i >= j)

\* len(s.split()): the number of whitespace-separated words
WordCount(s) ==
    Cardinality({i \in 1..Len(s) : s[i] # WS /\ (i = 1 \/ s[i - 1] = WS)})

-----------------------------------------------------------------------------
(* JSON values.                                                            *)

JStr(s)      == [t |-> "str", s |-> s]
JNum(lit)    == [t |-> "num", lit |-> lit]
JNull        == [t |-> "null"]
JBool(b)     == [t |-> "bool", b |-> b]
JList(items) == [t |-> "list", items |-> items]
JObj(mem)    == [t |-> "obj", mem |-> mem]      \* mem: sequence of [k, v], in insertion order

NumTokens == {"7"}
QUOTE == "\""

ObjHas(o, k) == \E i \in 1..Len(o.mem) : o.mem[i].k = k
ObjGet(o, k) == o.mem[CHOOSE i \in 1..Len(o.mem) : o.mem[i].k = k].v

\* dict[k] = v: an existing key keeps its place and takes the new value
ObjPut(mem, k, v) ==
    IF \E i \in 1..Len(mem) : mem[i].k = k
    THEN [i \in 1..Len(mem) |-> IF mem[i].k = k THEN [k |-> k, v |-> v] ELSE mem[i]]
    ELSE Append(mem, [k |-> k, v |-> v])

-----------------------------------------------------------------------------
(* json.dumps: separators ", " and ": " by default; with indent, a line    *)
(* break and its indentation (one whitespace token) after every opener and *)
(* every "," and before every closer.                                      *)

RECURSIVE JsonDumps(_, _)
RECURSIVE DumpItems(_, _, _)
RECURSIVE DumpMembers(_, _, _)

ItemSep(indent) == <<",", WS>>
Pad(indent)     == IF indent THEN <<WS>> ELSE <<>>

DumpItems(items, i, indent) ==
    IF i > Len(items) THEN <<>>
    ELSE JsonDumps(items[i], indent)
         \o (IF i < Len(items) THEN ItemSep(indent) ELSE <<>>)
         \o DumpItems(items, i + 1, indent)

DumpMembers(mem, i, indent) ==
    IF i > Len(mem) THEN <<>>
    ELSE <<QUOTE>> \o mem[i].k \o <<QUOTE, ":", WS>> \o JsonDumps(mem[i].v, indent)
         \o (IF i < Len(mem) THEN ItemSep(indent) ELSE <<>>)
         \o DumpMembers(mem, i + 1, indent)

JsonDumps(v, indent) ==
    CASE v.t = "str"  -> <<QUOTE>> \o v.s \o <<QUOTE>>
      [] v.t = "num"  -> <<v.lit>>
      [] v.t = "null" -> <<"null">>
      [] v.t = "bool" -> IF v.b THEN <<"true">> ELSE <<"false">>
      [] v.t = "list" -> IF Len(v.items) = 0 THEN <<"[", "]">>
                         ELSE <<"[">> \o Pad(indent) \o DumpItems(v.items, 1, indent)
                              \o Pad(indent) \o <<"]">>
      [] v.t = "obj"  -> IF Len(v.mem) = 0 THEN <<"{", "}">>
                         ELSE <<"{">> \o Pad(indent) \o DumpMembers(v.mem, 1, indent)
                              \o Pad(indent) \o <<"}">>

-----------------------------------------------------------------------------
(* json.loads: a recursive-descent parser over the tokens.  Every parse    *)
(* step gives [ok, v, i]: the value read and the position after it, or     *)
(* ok = FALSE with the decoder's message in v.                             *)

Fail(msg)  == [ok |-> FALSE, v |-> msg, i |-> 0]
Done(v, i) == [ok |-> TRUE, v |-> v, i |-> i]

\* first position >= i that holds no whitespace (Len(s) + 1 when there is none)
SkipWs(s, i) ==
    LET solid == {j \in i..Len(s) : s[j] # WS}
    IN  IF solid = {} THEN Len(s) + 1 ELSE CHOOSE j \in solid : \A k \in solid : j <= k

\* s[i] is the opening quote
ParseString(s, i) ==
    LET closes == {j \in (i + 1)..Len(s) : s[j] = QUOTE}
    IN  IF closes = {} THEN Fail("Unterminated string")
        ELSE LET j == CHOOSE c \in closes : \A d \in closes : c <= d
             IN  Done(JStr(SubSeq(s, i + 1, j - 1)), j + 1)

RECURSIVE ParseValue(_, _)
RECURSIVE ParseItems(_, _, _)
RECURSIVE ParseMembers(_, _, _)

\* after "[" or ",": a value, then "," or "]"
ParseItems(s, i, acc) ==
    LET r == ParseValue(s, i)
    IN  IF ~r.ok THEN r
        ELSE LET j == SkipWs(s, r.i)
             IN  IF j > Len(s) THEN Fail("Expecting ',' delimiter")
                 ELSE IF s[j] = "]" THEN Done(JList(Append(acc, r.v)), j + 1)
                 ELSE IF s[j] = "," THEN ParseItems(s, SkipWs(s, j + 1), Append(acc, r.v))
                 ELSE Fail("Expecting ',' delimiter")

\* after "{" or ",": a key string, ":", a value, then "," or "}"
ParseMembers(s, i, acc) ==
    IF i > Len(s) \/ s[i] # QUOTE
    THEN Fail("Expecting property name enclosed in double quotes")
    ELSE LET key == ParseString(s, i)
         IN  IF ~key.ok THEN key
             ELSE LET c == SkipWs(s, key.i)
                  IN  IF c > Len(s) \/ s[c] # ":" THEN Fail("Expecting ':' delimiter")
                      ELSE LET r == ParseValue(s, SkipWs(s, c + 1))
                           IN  IF ~r.ok THEN r
                               ELSE LET j   == SkipWs(s, r.i)
                                        mem == ObjPut(acc, key.v.s, r.v)
                                    IN  IF j > Len(s) THEN Fail("Expecting ',' delimiter")
                                        ELSE IF s[j] = "}" THEN Done(JObj(mem), j + 1)
                                        ELSE IF s[j] = ","
                                             THEN ParseMembers(s, SkipWs(s, j + 1), mem)
                                        ELSE Fail("Expecting ',' delimiter")

ParseValue(s, i) ==
    IF i > Len(s) THEN Fail("Expecting value")
    ELSE CASE s[i] = QUOTE   -> ParseString(s, i)
           [] s[i] = "{"     -> LET j == SkipWs(s, i + 1)
                                IN  IF j <= Len(s) /\ s[j] = "}" THEN Done(JObj(<<>>), j + 1)
                                    ELSE ParseMembers(s, j, <<>>)
           [] s[i] = "["     -> LET j == SkipWs(s, i + 1)
                                IN  IF j <= Len(s) /\ s[j] = "]" THEN Done(JList(<<>>), j + 1)
                                    ELSE ParseItems(s, j, <<>>)
           [] s[i] \in NumTokens -> Done(JNum(s[i]), i + 1)
           [] s[i] = "null"  -> Done(JNull, i + 1)
           [] s[i] = "true"  -> Done(JBool(TRUE), i + 1)
           [] s[i] = "false" -> Done(JBool(FALSE), i + 1)
           [] OTHER          -> Fail("Expecting value")

\* json.loads(s): [ok |-> TRUE, v |-> value] or [ok |-> FALSE, v |-> message]
JsonLoads(s) ==
    LET r == ParseValue(s, SkipWs(s, 1))
    IN  IF ~r.ok THEN r
        ELSE IF SkipWs(s, r.i) <= Len(s) THEN Fail("Extra data")
        ELSE r

-----------------------------------------------------------------------------
(* parse_json_response (llm.py 266-316).                                   *)

JsonFence == <<"FENCE", "json">>    \* the json-tagged fence marker of line 274
Fence     == <<"FENCE">>            \* the bare fence marker of line 276

\* an outcome of a Python call: a returned value or a raised exception
Returned(v)      == [kind |-> "returned", value |-> v]
Raised(exc, msg) == [kind |-> "raised", exc |-> exc, msg |-> msg]

\* ExtractJson with the span closed at the first "}" instead of the last
ExtractJsonFirstClose(raw) ==
    LET text == PyStrip(raw)
    IN  IF PyIn(JsonFence, text)
        THEN LET start == PyFind(text, JsonFence, 0) + Len(JsonFence)
                 end   == PyFind(text, Fence, start)
             IN  PyStrip(PySlice(text, start, end))
        ELSE IF PyIn(<<"{">>, text) /\ PyIn(<<"}">>, text)
        THEN LET start == PyFind(text, <<"{">>, 0)
                 end   == PyFind(text, <<"}">>, 0) + 1
             IN  PySlice(text, start, end)
        ELSE text

\* lines 273-281: the text handed to json.loads
ExtractJson(raw) ==
    LET text == PyStrip(raw)
    IN  IF PyIn(JsonFence, text)
        THEN LET start == PyFind(text, JsonFence, 0) + Len(JsonFence)
                 end   == PyFind(text, Fence, start)
             IN  PyStrip(PySlice(text, start, end))
        ELSE IF PyIn(<<"{">>, text) /\ PyIn(<<"}">>, text)
        THEN LET start == PyFind(text, <<"{">>, 0)
                 end   == PyRFind(text, <<"}">>) + 1
             IN  PySlice(text, start, end)
        ELSE text

\* field in data, for the types on which "in" is defined
FieldIn(field, data) ==
    CASE data.t = "obj"  -> ObjHas(data, <<field>>)
      [] data.t = "list" -> \E i \in 1..Len(data.items) : data.items[i] = JStr(<<field>>)
      [] data.t = "str"  -> PyIn(<<field>>, data.s)
      [] OTHER           -> FALSE

RequiredFields == <<"brief", "angles", "criteria">>

SentenceEnd == {".", "!", "?"}

\* lines 295-297: re.split on [.!?]+, counting the segments that are not blank
SentenceCount(s) ==
    LET solid(i) == s[i] # WS /\ s[i] \notin SentenceEnd
    IN  Cardinality({i \in 1..Len(s) :
            /\ solid(i)
            /\ \A j \in 1..(i - 1) :
                  solid(j) => \E k \in (j + 1)..(i - 1) : s[k] \in SentenceEnd})

\* line 304
MinBriefWords == 10

\* line 307 / 310
RequiredItems == 3

NoError == <<>>

\* BriefError with the sentence count of lines 299-301 enforced
BriefStrictSentences(brief) ==
    IF brief.t # "str" THEN <<"Brief must be a string">>
    ELSE IF SentenceCount(brief.s) < 3 \/ SentenceCount(brief.s) > 8
    THEN <<"Brief has the wrong number of sentences">>
    ELSE IF WordCount(brief.s) < MinBriefWords
    THEN <<"Brief too short - needs more content">>
    ELSE NoError

\* lines 290-305: the checks on data["brief"]; the message of the ValueError
\* raised, NoError when none is.  The sentence count of lines 295-301 is
\* computed and a count outside 3..8 only passes.
BriefError(brief) ==
    IF brief.t # "str" THEN <<"Brief must be a string">>
    ELSE LET sentence_count == SentenceCount(brief.s)
         IN  IF WordCount(brief.s) < MinBriefWords
             THEN <<"Brief too short - needs more content">>
             ELSE NoError

\* IsTriple with "len(v) > 3" as the rejection test
IsTripleAtMost(v) == v.t = "list" /\ Len(v.items) <= RequiredItems

\* lines 307 and 310: isinstance(v, list) and len(v) == 3
IsTriple(v) == v.t = "list" /\ Len(v.items) = RequiredItems

\* lines 286-313: the checks on the decoded value, in the order of the code
Validate(data) ==
    IF data.t \in {"num", "null", "bool"}
    THEN Raised("TypeError", <<"argument of this type is not iterable">>)
    ELSE IF ~ \A i \in 1..Len(RequiredFields) : FieldIn(RequiredFields[i], data)
    THEN Raised("ValueError", <<"Missing required fields in response">>)
    ELSE IF data.t # "obj"
    THEN Raised("TypeError", <<"indices must be integers">>)
    ELSE IF BriefError(ObjGet(data, <<"brief">>)) # NoError
    THEN Raised("ValueError", BriefError(ObjGet(data, <<"brief">>)))
    ELSE IF ~IsTriple(ObjGet(data, <<"angles">>))
    THEN Raised("ValueError", <<"Must have exactly 3 content angles">>)
    ELSE IF ~IsTriple(ObjGet(data, <<"criteria">>))
    THEN Raised("ValueError", <<"Must have exactly 3 selection criteria">>)
    ELSE Returned(data)

\* lines 315-316: which exceptions the except clause catches
Caught(exc) == exc \in {"JSONDecodeError", "ValueError"}

\* line 316: the caught exception re-raised as ValueError with its message
Wrap(e) ==
    IF Caught(e.exc)
    THEN Raised("ValueError", <<"Invalid JSON response: ">> \o e.msg)
    ELSE e

parse_json_response(raw) ==
    LET loaded == JsonLoads(ExtractJson(raw))
    IN  IF ~loaded.ok THEN Wrap(Raised("JSONDecodeError", <<loaded.v>>))
        ELSE LET checked == Validate(loaded.v)
             IN  IF checked.kind = "raised" THEN Wrap(checked) ELSE checked

-----------------------------------------------------------------------------
(* Sample inputs: JSON documents a provider may answer with, and the ways  *)
(* a provider wraps them in its raw text.                                  *)

RECURSIVE WordsDot(_, _, _)
\* words i..n separated by blanks, each of the first k followed by "."
WordsDot(i, n, k) ==
    IF i > n THEN <<>>
    ELSE <<"w">> \o (IF i <= k THEN <<".">> ELSE <<>>)
         \o (IF i < n THEN <<WS>> ELSE <<>>) \o WordsDot(i + 1, n, k)

Words(n) == WordsDot(1, n, 0)

Absent == [t |-> "absent"]      \* the key is not in the object

BriefLengths == {0} \cup ((MinBriefWords - 1)..MaxBriefWords)

SampleBriefs ==
    {JStr(WordsDot(1, n, k)) : n \in BriefLengths, k \in {0, 4, MaxBriefWords}}
    \cup {JStr(Words(MinBriefWords) \o <<WS>> \o JsonFence)}
    \cup {JNum("7"), JNull, Absent}

Items(n, item) == JList([i \in 1..n |-> item])

SampleLists ==
    {Items(n, JStr(<<"w">>)) : n \in 0..MaxItems}
    \cup {Items(RequiredItems, JNum("7")),
          Items(RequiredItems, JStr(<<"w", "}", "{">>)),
          Items(RequiredItems, JStr(<<"w", WS>> \o JsonFence)),
          Items(RequiredItems, Items(1, JNull)),
          JStr(<<"w">>), JNull, Absent}

SampleCriteria ==
    {Items(n, JStr(<<"w">>)) : n \in {RequiredItems - 1, RequiredItems}}
    \cup {Items(RequiredItems, JBool(TRUE)), JObj(<<>>), Absent}

Member(k, v) == IF v = Absent THEN <<>> ELSE <<[k |-> <<k>>, v |-> v]>>

MkObj(b, a, c, more) ==
    JObj(Member("brief", b) \o Member("angles", a) \o Member("criteria", c)
         \o Member("note", more))

SampleObjects ==
    {MkObj(b, a, c, Absent) : b \in SampleBriefs, a \in SampleLists, c \in SampleCriteria}
    \cup {MkObj(JStr(WordsDot(1, n, 4)), a, Items(RequiredItems, JStr(<<"w">>)), JStr(<<"w">>)) :
            n \in BriefLengths, a \in SampleLists}

\* decoded values that are not objects
SampleScalars ==
    {JNum("7"), JNull, JBool(TRUE), JBool(FALSE), JStr(<<"w">>),
     JStr(<<"brief", WS, "angles", WS, "criteria">>),
     JList(<<>>), JList(<<JStr(<<"brief">>), JStr(<<"angles">>), JStr(<<"criteria">>)>>),
     JList(<<JStr(<<"brief">>), JStr(<<"angles">>)>>)}

Wrappers == {"bare", "blanks", "prose", "fenced", "fenced_prose", "fenced_braces",
             "open_fence", "plain_fence", "prose_braces_before", "prose_braces_after",
             "prose_fence"}

\* the raw text of a document serialised by json.dumps and wrapped
WrapText(t, w) ==
    CASE w = "bare"                -> t
      [] w = "blanks"              -> <<WS, WS>> \o t \o <<WS>>
      [] w = "prose"               -> <<"w", WS, "w", ":", WS>> \o t \o <<WS, "w", ".">>
      [] w = "fenced"              -> JsonFence \o <<WS>> \o t \o <<WS>> \o Fence
      [] w = "fenced_prose"        -> <<"w", WS>> \o JsonFence \o <<WS>> \o t
                                      \o <<WS>> \o Fence \o <<WS, "w">>
      [] w = "fenced_braces"       -> <<"{", WS>> \o JsonFence \o <<WS>> \o t
                                      \o <<WS>> \o Fence \o <<WS, "}">>
      [] w = "open_fence"          -> JsonFence \o <<WS>> \o t
      [] w = "plain_fence"         -> Fence \o <<WS>> \o t \o <<WS>> \o Fence
      [] w = "prose_braces_before" -> <<"w", WS, "{", "w", "}", WS>> \o t
      [] w = "prose_braces_after"  -> t \o <<WS, "w", WS, "{", "w", "}">>
      [] w = "prose_fence"         -> <<"w", WS>> \o JsonFence \o <<WS, "w", ":", WS>> \o t

\* raw texts that are no serialisation of anything
RawTexts ==
    {<<"{", WS, "w", WS, "w", WS, "w">>,       \* "{ invalid json structure"
     <<>>, <<"w", WS, "w">>, <<"}", WS, "{">>,
     <<"{", QUOTE, "brief", QUOTE, ":", WS, QUOTE, "w", QUOTE, ",", "}">>,
     <<"{", QUOTE, "brief", QUOTE, ":", WS, "7", ",", WS, QUOTE, "brief", QUOTE, ":", WS,
       "null", "}">>}

ParseInputs ==
    {[kind |-> "doc", doc |-> d, wrap |-> w] : d \in SampleObjects \cup SampleScalars,
                                               w \in Wrappers}
    \cup {[kind |-> "raw", text |-> t] : t \in RawTexts}

InputText(in) ==
    IF in.kind = "doc" THEN WrapText(JsonDumps(in.doc, FALSE), in.wrap) ELSE in.text

-----------------------------------------------------------------------------
(* parse_json_response applied to sampled inputs.                          *)

NoValue == [kind |-> "none"]

ParseIdle ==
    /\ p_pc = "idle" /\ p_in = NoValue /\ p_text = <<>> /\ p_out = NoValue

ParseInit ==
    /\ p_pc = "ready"
    /\ p_in \in ParseInputs
    /\ p_text = InputText(p_in)
    /\ p_out = NoValue

ParseJsonResponse ==
    /\ p_pc = "ready"
    /\ p_out' = parse_json_response(p_text)
    /\ p_pc' = "done"
    /\ UNCHANGED <<p_in, p_text>>
    /\ UNCHANGED orchVars
    /\ UNCHANGED serverVars

\* no generate_campaign_brief call in flight
RequestIdle ==
    /\ pc = "idle" /\ args = NoValue /\ provider = "" /\ response_text = <<>>
    /\ metrics = NoValue /\ prompts_built = FALSE /\ network_calls = 0
    /\ result = NoValue /\ token = "unset" /\ cfg_seen = NoValue

Workers == {"t1", "t2"}      \* the server's worker threads
IPs     == {"10.0.0.1"}     \* client addresses

\* no generate_brief request in flight, none admitted yet
WorkersIdle ==
    /\ v_pc = [w \in Workers |-> "idle"] /\ v_ip = [w \in Workers |-> "none"]
    /\ v_body = [w \in Workers |-> "none"]
    /\ v_cur = [w \in Workers |-> 0] /\ v_status = [w \in Workers |-> 0]
    /\ v_called = [w \in Workers |-> FALSE]
    /\ admitted = [ip \in IPs |-> 0]

\* the HTTP layer at rest: no handler running, no rate-limit key in the cache
\* (cache[ip] = 0 stands for "no key": cache.get(key, 0) reads 0 then, and the
\* code never stores 0)
ServerIdle ==
    /\ DEBUG = FALSE /\ cache = [ip \in IPs |-> 0]
    /\ sp_pc = "idle" /\ sp_req = NoValue /\ sp_status = 0 /\ sp_calls = 0
    /\ WorkersIdle

OrchIdle ==
    /\ AI_PROVIDER = "test" /\ AI_PROVIDER_API_KEY = "" /\ pytest_loaded = FALSE
    /\ RequestIdle
    /\ ServerIdle

ParseSpecInit == OrchIdle /\ ParseInit
ParseSpecNext == ParseJsonResponse
ParseSpec == ParseSpecInit /\ [][ParseSpecNext]_vars

-----------------------------------------------------------------------------
(* The provider adapters and generate_campaign_brief (llm.py 92-263,       *)
(* 319-394).  One request runs at a time; the steps are the places where   *)
(* the call reads the settings or waits for a provider.                    *)

Providers == {"test", "ollama", "openai", "anthropic"}  \* "anthropic": a value the code does not support
ApiKeys   == {"", "sk-settings"}                        \* settings.AI_PROVIDER_API_KEY
ApiTokens == {"None", "", "sk-request"}                 \* the api_token argument
Brands    == {"Acme", "Nike"}

\* Python truthiness of an optional str
Truthy(x) == x \notin {"None", ""}

\* what a provider call can fail with: network error, timeout, non-2xx reply
\* (the adapters treat every exception of the call alike)
TransportErrors == {"ConnectionError", "Timeout", "HTTPError"}

\* raw texts a provider may answer with
ProviderInputs ==
    {[kind |-> "doc", doc |-> MkObj(b, a, c, Absent), wrap |-> w] :
        b \in {JStr(WordsDot(1, MinBriefWords, 4)), JStr(Words(MinBriefWords - 1)),
               JNum("7"), Absent},
        a \in {Items(RequiredItems, JStr(<<"w">>)), Items(RequiredItems - 1, JStr(<<"w">>)),
               Items(RequiredItems, JNum("7")), JNull},
        c \in {Items(RequiredItems, JStr(<<"w">>)), Items(RequiredItems + 1, JStr(<<"w">>)),
               Items(RequiredItems, JBool(TRUE))},
        w \in {"bare", "prose", "fenced", "open_fence"}}
    \cup {[kind |-> "doc", doc |-> d, wrap |-> "bare"] : d \in SampleScalars}
    \cup {[kind |-> "raw", text |-> t] : t \in RawTexts}

ProviderTexts == {InputText(in) : in \in ProviderInputs}

\* metrics["success"] = ok (lines 341, 350, 374, 384)
WithSuccess(m, ok) == [success |-> ok] @@ m

\* metrics["parse_error"] = str(e) (lines 351, 385)
WithParseError(m, msg) == [parse_error |-> msg] @@ m

Init ==
    /\ AI_PROVIDER \in Providers
    /\ AI_PROVIDER_API_KEY \in ApiKeys
    /\ pytest_loaded \in BOOLEAN
    /\ RequestIdle
    /\ ServerIdle
    /\ ParseIdle

\* the caller invokes generate_campaign_brief(brand, platform, goal, tone, api_token)
Call ==
    /\ pc = "idle"
    /\ \E b \in Brands, tok \in ApiTokens :
          args' = [brand |-> b, api_token |-> tok]
    /\ pc' = "start"
    /\ UNCHANGED <<AI_PROVIDER, AI_PROVIDER_API_KEY, pytest_loaded, provider,
                   response_text, metrics, prompts_built, network_calls, result>>
    /\ UNCHANGED parseVars
    /\ UNCHANGED <<token, cfg_seen>>
    /\ UNCHANGED serverVars

\* SelectProvider without the pytest test of line 332
SelectProviderConfigured(configured, under_pytest) == configured

\* lines 331-333: the provider that serves the request
SelectProvider(configured, under_pytest) ==
    IF under_pytest \/ configured = "test" THEN "test" ELSE configured

ResolveProvider ==
    /\ pc = "start"
    /\ provider' = SelectProvider(AI_PROVIDER, pytest_loaded)
    /\ cfg_seen' = [provider |-> AI_PROVIDER, key |-> AI_PROVIDER_API_KEY]
    /\ pc' = "resolved"
    /\ UNCHANGED <<AI_PROVIDER, AI_PROVIDER_API_KEY, pytest_loaded, args,
                   response_text, metrics, prompts_built, network_calls, result>>
    /\ UNCHANGED parseVars
    /\ UNCHANGED <<token>>
    /\ UNCHANGED serverVars

\* fake.sentence(): some words and a full stop
Sentence(n) == WordsDot(1, n, 0) \o <<".">>

RECURSIVE JoinBlank(_, _)
\* " ".join(parts[i..])
JoinBlank(parts, i) ==
    IF i > Len(parts) THEN <<>>
    ELSE parts[i] \o (IF i < Len(parts) THEN <<WS>> ELSE <<>>) \o JoinBlank(parts, i + 1)

\* lines 233-248: the response_data of call_test_api
TestResponseData(n, sb, sa, sc) ==
    MkObj(JStr(JoinBlank([i \in 1..n |-> sb], 1)),
          Items(3, JStr(sa)), Items(3, JStr(sc)), Absent)

\* lines 254-261
TestMetrics(text) ==
    [provider |-> "test", model |-> "faker", tokens_used |-> WordCount(text),
     total_tokens |-> WordCount(text), cost_estimate |-> 0]

\* lines 339-357: the result built from the synthetic adapter's text
TestResult(brand, text, m) ==
    LET loaded == JsonLoads(text)
    IN  IF loaded.ok /\ loaded.v.t = "obj"
           /\ \A i \in 1..Len(RequiredFields) : ObjHas(loaded.v, <<RequiredFields[i]>>)
        THEN Returned([brief    |-> ObjGet(loaded.v, <<"brief">>),
                       angles   |-> ObjGet(loaded.v, <<"angles">>),
                       criteria |-> ObjGet(loaded.v, <<"criteria">>),
                       metrics  |-> WithSuccess(m, TRUE)])
        ELSE LET msg == IF loaded.ok THEN <<"KeyError">> ELSE <<loaded.v>>
             IN  Returned([brief    |-> JStr(<<"Test provider error for ", brand, ": ">> \o msg),
                           angles   |-> JList(<<JStr(<<"Test generation failed">>),
                                                JStr(<<"Please check configuration">>),
                                                JStr(<<"Contact support">>)>>),
                           criteria |-> JList(<<JStr(<<"Test provider issue">>),
                                                JStr(<<"JSON parsing failed">>),
                                                JStr(<<"Debug needed">>)>>),
                           metrics  |-> WithParseError(WithSuccess(m, FALSE), msg)])

\* lines 336-357 with call_test_api (225-263): no prompt, no network
CallTestApi ==
    /\ pc = "resolved" /\ provider = "test"
    /\ \E n \in 4..6, sb \in {Sentence(1), Sentence(2)},
          sa \in {Sentence(1), Sentence(2)}, sc \in {Sentence(1), Sentence(2)} :
          LET text == JsonDumps(TestResponseData(n, sb, sa, sc), TRUE)
          IN  /\ response_text' = text
              /\ metrics' = TestMetrics(text)
              /\ result' = TestResult(args.brand, text, TestMetrics(text))
    /\ pc' = "done"
    /\ UNCHANGED <<AI_PROVIDER, AI_PROVIDER_API_KEY, pytest_loaded, args, provider,
                   prompts_built, network_calls>>
    /\ UNCHANGED parseVars
    /\ UNCHANGED <<token, cfg_seen>>
    /\ UNCHANGED serverVars

\* lines 360-362
BuildPrompts ==
    /\ pc = "resolved" /\ provider # "test"
    /\ prompts_built' = TRUE
    /\ pc' = "prompted"
    /\ UNCHANGED <<AI_PROVIDER, AI_PROVIDER_API_KEY, pytest_loaded, args, provider,
                   response_text, metrics, network_calls, result>>
    /\ UNCHANGED parseVars
    /\ UNCHANGED <<token, cfg_seen>>
    /\ UNCHANGED serverVars

\* lines 117-124
OllamaMetrics(eval_count) ==
    [provider |-> "ollama", model |-> "OLLAMA_MODEL", tokens_used |-> eval_count,
     total_tokens |-> eval_count, cost_estimate |-> 0]

\* lines 365, 110-126: the local provider answers
CallOllamaApiOk ==
    /\ pc = "prompted" /\ provider = "ollama"
    /\ network_calls' = network_calls + 1
    /\ \E text \in ProviderTexts, eval_count \in 0..MaxTokens :
          /\ response_text' = text
          /\ metrics' = OllamaMetrics(eval_count)
    /\ pc' = "called"
    /\ UNCHANGED <<AI_PROVIDER, AI_PROVIDER_API_KEY, pytest_loaded, args, provider,
                   prompts_built, result>>
    /\ UNCHANGED parseVars
    /\ UNCHANGED <<token, cfg_seen>>
    /\ UNCHANGED serverVars

\* line 136 / 221: what the adapter raises on a transport failure
AdapterFailure(prefix, err) == Raised("Exception", <<prefix, err>>)

\* a variant of the failing Ollama call that tries the request a second time
\* before giving up
CallOllamaApiFailRetry ==
    /\ pc = "prompted" /\ provider = "ollama"
    /\ network_calls' = network_calls + 1
    /\ \E err \in TransportErrors :
          result' = IF network_calls = 0 THEN result
                    ELSE AdapterFailure("Ollama API error: ", err)
    /\ pc' = IF network_calls = 0 THEN "prompted" ELSE "done"
    /\ UNCHANGED <<AI_PROVIDER, AI_PROVIDER_API_KEY, pytest_loaded, args, provider,
                   response_text, metrics, prompts_built>>
    /\ UNCHANGED parseVars
    /\ UNCHANGED <<token, cfg_seen>>
    /\ UNCHANGED serverVars

\* lines 365, 128-136: the call to the local provider fails; the adapter
\* raises and generate_campaign_brief has no handler around line 365
CallOllamaApiFail ==
    /\ pc = "prompted" /\ provider = "ollama"
    /\ network_calls' = network_calls + 1
    /\ \E err \in TransportErrors :
          result' = AdapterFailure("Ollama API error: ", err)
    /\ pc' = "done"
    /\ UNCHANGED <<AI_PROVIDER, AI_PROVIDER_API_KEY, pytest_loaded, args, provider,
                   response_text, metrics, prompts_built>>
    /\ UNCHANGED parseVars
    /\ UNCHANGED <<token, cfg_seen>>
    /\ UNCHANGED serverVars

\* line 162: token = api_token or settings.AI_PROVIDER_API_KEY
OpenAIToken(api_token, key) == IF Truthy(api_token) THEN api_token ELSE key

\* lines 367, 162-164: no credential; raised before the client is created
CallOpenAIApiNoKey ==
    /\ pc = "prompted" /\ provider = "openai"
    /\ ~Truthy(OpenAIToken(args.api_token, AI_PROVIDER_API_KEY))
    /\ token' = OpenAIToken(args.api_token, AI_PROVIDER_API_KEY)
    /\ result' = Raised("ValueError", <<"OpenAI API key not configured">>)
    /\ pc' = "done"
    /\ UNCHANGED <<AI_PROVIDER, AI_PROVIDER_API_KEY, pytest_loaded, args, provider,
                   response_text, metrics, prompts_built, network_calls>>
    /\ UNCHANGED parseVars
    /\ UNCHANGED <<cfg_seen>>
    /\ UNCHANGED serverVars

\* lines 192-209
OpenAIMetrics(completion, prompt) ==
    [provider |-> "openai", model |-> "OPENAI_MODEL", tokens_used |-> completion,
     total_tokens |-> completion + prompt, prompt_tokens |-> prompt, cost_estimate |-> 0]

\* lines 367, 166-211: the hosted provider answers
CallOpenAIApiOk ==
    /\ pc = "prompted" /\ provider = "openai"
    /\ Truthy(OpenAIToken(args.api_token, AI_PROVIDER_API_KEY))
    /\ token' = OpenAIToken(args.api_token, AI_PROVIDER_API_KEY)
    /\ network_calls' = network_calls + 1
    /\ \E text \in ProviderTexts, completion \in 0..MaxTokens :
          /\ response_text' = text
          /\ metrics' = OpenAIMetrics(completion, completion)
    /\ pc' = "called"
    /\ UNCHANGED <<AI_PROVIDER, AI_PROVIDER_API_KEY, pytest_loaded, args, provider,
                   prompts_built, result>>
    /\ UNCHANGED parseVars
    /\ UNCHANGED <<cfg_seen>>
    /\ UNCHANGED serverVars

\* lines 367, 213-221: the call to the hosted provider fails
CallOpenAIApiFail ==
    /\ pc = "prompted" /\ provider = "openai"
    /\ Truthy(OpenAIToken(args.api_token, AI_PROVIDER_API_KEY))
    /\ token' = OpenAIToken(args.api_token, AI_PROVIDER_API_KEY)
    /\ network_calls' = network_calls + 1
    /\ \E err \in TransportErrors :
          result' = AdapterFailure("OpenAI LangChain call failed: ", err)
    /\ pc' = "done"
    /\ UNCHANGED <<AI_PROVIDER, AI_PROVIDER_API_KEY, pytest_loaded, args, provider,
                   response_text, metrics, prompts_built>>
    /\ UNCHANGED parseVars
    /\ UNCHANGED <<cfg_seen>>
    /\ UNCHANGED serverVars

\* lines 368-369
UnsupportedProvider ==
    /\ pc = "prompted" /\ provider \notin {"ollama", "openai"}
    /\ result' = Raised("ValueError", <<"Unsupported AI provider: ", provider>>)
    /\ pc' = "done"
    /\ UNCHANGED <<AI_PROVIDER, AI_PROVIDER_API_KEY, pytest_loaded, args, provider,
                   response_text, metrics, prompts_built, network_calls>>
    /\ UNCHANGED parseVars
    /\ UNCHANGED <<token, cfg_seen>>
    /\ UNCHANGED serverVars

\* line 383: the exceptions the orchestrator's handler catches
Handled(exc) == exc = "ValueError"

\* lines 376-381
SuccessResult(data, m) ==
    [brief    |-> ObjGet(data, <<"brief">>),
     angles   |-> ObjGet(data, <<"angles">>),
     criteria |-> ObjGet(data, <<"criteria">>),
     metrics  |-> WithSuccess(m, TRUE)]

\* lines 384-394
FallbackResult(brand, msg, m, raw) ==
    [brief        |-> JStr(<<"Error generating brief for ", brand, ": ">> \o msg),
     angles       |-> JList(<<JStr(<<"Error in generation">>), JStr(<<"Please try again">>),
                              JStr(<<"Check configuration">>)>>),
     criteria     |-> JList(<<JStr(<<"Model response invalid">>),
                              JStr(<<"JSON parsing failed">>), JStr(<<"Contact support">>)>>),
     metrics      |-> WithParseError(WithSuccess(m, FALSE), msg),
     raw_response |-> raw]

\* lines 371-394: what the call gives its caller once the adapter answered
Outcome(brand, raw, m) ==
    LET parsed == parse_json_response(raw)
    IN  IF parsed.kind = "returned" THEN Returned(SuccessResult(parsed.value, m))
        ELSE IF Handled(parsed.exc) THEN Returned(FallbackResult(brand, parsed.msg, m, raw))
        ELSE parsed

ParseResponse ==
    /\ pc = "called"
    /\ result' = Outcome(args.brand, response_text, metrics)
    /\ pc' = "done"
    /\ UNCHANGED <<AI_PROVIDER, AI_PROVIDER_API_KEY, pytest_loaded, args, provider,
                   response_text, metrics, prompts_built, network_calls>>
    /\ UNCHANGED parseVars
    /\ UNCHANGED <<token, cfg_seen>>
    /\ UNCHANGED serverVars

Next ==
    \/ Call
    \/ ResolveProvider
    \/ CallTestApi
    \/ BuildPrompts
    \/ CallOllamaApiOk
    \/ CallOllamaApiFail
    \/ CallOpenAIApiNoKey
    \/ CallOpenAIApiOk
    \/ CallOpenAIApiFail
    \/ UnsupportedProvider
    \/ ParseResponse

Spec == Init /\ [][Next]_vars

-----------------------------------------------------------------------------
(* views.set_provider: the debug-only runtime switch of the provider, run   *)
(* by its own thread while a generate_campaign_brief call is in flight.     *)

\* what generate_campaign_brief holds besides the two settings
requestVars == <<pytest_loaded, pc, args, provider, response_text, metrics,
                 prompts_built, network_calls, result, token, cfg_seen>>

\* line 270
valid_providers == {"test", "ollama", "openai"}

\* request bodies: not JSON, JSON that is no object, or an object with an
\* optional provider and an optional api_key ("None": key absent)
SwitchBodies ==
    {[kind |-> "invalid"], [kind |-> "array"]}
    \cup {[kind |-> "object", provider |-> p, api_key |-> k] :
            p \in valid_providers \cup {"anthropic", "None"},
            k \in {"None", "", "sk-new"}}

\* cache.clear()
EmptyCache == [ip \in IPs |-> 0]

MaxSwitches == 2     \* set_provider requests per behaviour

\* line 256: a POST arrives
SetProviderEnter ==
    /\ sp_pc = "idle" /\ sp_calls < MaxSwitches
    /\ sp_req' \in SwitchBodies
    /\ sp_pc' = "entered"
    /\ sp_calls' = sp_calls + 1
    /\ UNCHANGED <<AI_PROVIDER, AI_PROVIDER_API_KEY, cache, DEBUG, sp_status>>
    /\ UNCHANGED <<requestVars, parseVars, rateVars>>

\* lines 258-259
SetProviderForbidden ==
    /\ sp_pc = "entered" /\ ~DEBUG
    /\ sp_status' = 403
    /\ sp_pc' = "idle" /\ sp_req' = NoValue
    /\ UNCHANGED <<AI_PROVIDER, AI_PROVIDER_API_KEY, cache, DEBUG, sp_calls>>
    /\ UNCHANGED <<requestVars, parseVars, rateVars>>

\* lines 261-267
SetProviderInvalidJson ==
    /\ sp_pc = "entered" /\ DEBUG
    /\ sp_req.kind = "invalid"
    /\ sp_status' = 400
    /\ sp_pc' = "idle" /\ sp_req' = NoValue
    /\ UNCHANGED <<AI_PROVIDER, AI_PROVIDER_API_KEY, cache, DEBUG, sp_calls>>
    /\ UNCHANGED <<requestVars, parseVars, rateVars>>

\* line 269 on a JSON value without .get: AttributeError, answered 500
SetProviderNotObject ==
    /\ sp_pc = "entered" /\ DEBUG
    /\ sp_req.kind = "array"
    /\ sp_status' = 500
    /\ sp_pc' = "idle" /\ sp_req' = NoValue
    /\ UNCHANGED <<AI_PROVIDER, AI_PROVIDER_API_KEY, cache, DEBUG, sp_calls>>
    /\ UNCHANGED <<requestVars, parseVars, rateVars>>

\* lines 269-276
SetProviderUnknown ==
    /\ sp_pc = "entered" /\ DEBUG
    /\ sp_req.kind = "object" /\ sp_req.provider \notin valid_providers
    /\ sp_status' = 400
    /\ sp_pc' = "idle" /\ sp_req' = NoValue
    /\ UNCHANGED <<AI_PROVIDER, AI_PROVIDER_API_KEY, cache, DEBUG, sp_calls>>
    /\ UNCHANGED <<requestVars, parseVars, rateVars>>

\* line 278
SetProviderWriteProvider ==
    /\ sp_pc = "entered" /\ DEBUG
    /\ sp_req.kind = "object" /\ sp_req.provider \in valid_providers
    /\ AI_PROVIDER' = sp_req.provider
    /\ sp_pc' = "provider_set"
    /\ UNCHANGED <<AI_PROVIDER_API_KEY, cache, DEBUG, sp_req, sp_status, sp_calls>>
    /\ UNCHANGED <<requestVars, parseVars, rateVars>>

\* a variant of lines 280-285 that stores whatever api_key the body carries
NewKeyAlways(body, old) == IF Truthy(body.api_key) THEN body.api_key ELSE ""

\* lines 280-285: the credential after the switch
NewKey(body, old) ==
    IF body.provider = "openai"
    THEN IF Truthy(body.api_key) THEN body.api_key ELSE old
    ELSE ""

\* lines 280-285
SetProviderWriteKey ==
    /\ sp_pc = "provider_set"
    /\ AI_PROVIDER_API_KEY' = NewKey(sp_req, AI_PROVIDER_API_KEY)
    /\ sp_pc' = "key_set"
    /\ UNCHANGED <<AI_PROVIDER, cache, DEBUG, sp_req, sp_status, sp_calls>>
    /\ UNCHANGED <<requestVars, parseVars, rateVars>>

\* lines 288-293
SetProviderReply ==
    /\ sp_pc = "key_set"
    /\ cache' = EmptyCache
    /\ sp_status' = 200
    /\ sp_pc' = "idle" /\ sp_req' = NoValue
    /\ UNCHANGED <<AI_PROVIDER, AI_PROVIDER_API_KEY, DEBUG, sp_calls>>
    /\ UNCHANGED <<requestVars, parseVars, rateVars>>

\* the request the switch races with: one brand, and two provider answers
SwitchTexts ==
    {InputText([kind |-> "doc", wrap |-> "bare",
                doc |-> MkObj(JStr(WordsDot(1, MinBriefWords, 4)),
                              Items(RequiredItems, JStr(<<"w">>)),
                              Items(RequiredItems, JStr(<<"w">>)), Absent)]),
     InputText([kind |-> "doc", wrap |-> "bare",
                doc |-> MkObj(Absent, Items(RequiredItems, JStr(<<"w">>)),
                              Items(RequiredItems, JStr(<<"w">>)), Absent)])}

SwitchCall            == Call /\ args'.brand = "Acme" /\ args'.api_token # ""
SwitchCallOllamaApiOk == CallOllamaApiOk /\ response_text' \in SwitchTexts
SwitchCallOpenAIApiOk == CallOpenAIApiOk /\ response_text' \in SwitchTexts

\* a cache that holds counters, for cache.clear() to clear
UsedCache == [ip \in IPs |-> 2]

SwitchInit ==
    /\ AI_PROVIDER \in Providers
    /\ AI_PROVIDER_API_KEY \in ApiKeys
    /\ pytest_loaded = FALSE
    /\ RequestIdle
    /\ DEBUG \in BOOLEAN /\ cache = UsedCache
    /\ sp_pc = "idle" /\ sp_req = NoValue /\ sp_status = 0 /\ sp_calls = 0
    /\ WorkersIdle
    /\ ParseIdle

SwitchNext ==
    \/ SwitchCall
    \/ ResolveProvider
    \/ CallTestApi
    \/ BuildPrompts
    \/ SwitchCallOllamaApiOk
    \/ CallOllamaApiFail
    \/ CallOpenAIApiNoKey
    \/ SwitchCallOpenAIApiOk
    \/ CallOpenAIApiFail
    \/ UnsupportedProvider
    \/ ParseResponse
    \/ SetProviderEnter
    \/ SetProviderForbidden
    \/ SetProviderInvalidJson
    \/ SetProviderNotObject
    \/ SetProviderUnknown
    \/ SetProviderWriteProvider
    \/ SetProviderWriteKey
    \/ SetProviderReply

SwitchSpec == SwitchInit /\ [][SwitchNext]_vars

-----------------------------------------------------------------------------
(* views.generate_brief with check_rate_limit, run by the worker threads of *)
(* the server on requests of several client IPs.                            *)

\* line 125: the default of settings.RATE_LIMIT_MAX_REQUESTS
RATE_LIMIT_MAX_REQUESTS == 10

\* request bodies: no JSON, JSON that fails validate_form_inputs, a valid form
Bodies == {"bad_json", "bad_form", "ok"}

\* what the view leaves alone
viewFrame == <<AI_PROVIDER, AI_PROVIDER_API_KEY, pytest_loaded, requestVars, parseVars,
               switchVars>>

\* the worker answers and is free again
Respond(w, status) ==
    /\ v_status' = [v_status EXCEPT ![w] = status]
    /\ v_pc' = [v_pc EXCEPT ![w] = "idle"]
    /\ v_ip' = [v_ip EXCEPT ![w] = "none"]
    /\ v_body' = [v_body EXCEPT ![w] = "none"]
    /\ v_cur' = [v_cur EXCEPT ![w] = 0]

\* line 142: a POST arrives at a free worker
ViewEnter(w) ==
    /\ v_pc[w] = "idle"
    /\ \E ip \in IPs, b \in Bodies :
          /\ v_ip' = [v_ip EXCEPT ![w] = ip]
          /\ v_body' = [v_body EXCEPT ![w] = b]
    /\ v_pc' = [v_pc EXCEPT ![w] = "entered"]
    /\ v_status' = [v_status EXCEPT ![w] = 0]
    /\ v_called' = [v_called EXCEPT ![w] = FALSE]
    /\ UNCHANGED <<cache, v_cur, admitted>>
    /\ UNCHANGED viewFrame

\* lines 156-162
ViewInvalidJson(w) ==
    /\ v_pc[w] = "entered" /\ v_body[w] = "bad_json"
    /\ Respond(w, 400)
    /\ UNCHANGED <<cache, admitted, v_called>>
    /\ UNCHANGED viewFrame

\* lines 165, 115-116: under pytest every request is allowed
CheckRateLimitPytest(w) ==
    /\ v_pc[w] = "entered" /\ v_body[w] # "bad_json"
    /\ pytest_loaded
    /\ v_pc' = [v_pc EXCEPT ![w] = "allowed"]
    /\ UNCHANGED <<cache, v_ip, v_body, v_cur, v_status, v_called, admitted>>
    /\ UNCHANGED viewFrame

\* lines 165, 118-129: current_requests = cache.get(cache_key, 0)
CheckRateLimitRead(w) ==
    /\ v_pc[w] = "entered" /\ v_body[w] # "bad_json"
    /\ ~pytest_loaded
    /\ v_cur' = [v_cur EXCEPT ![w] = cache[v_ip[w]]]
    /\ v_pc' = [v_pc EXCEPT ![w] = "read"]
    /\ UNCHANGED <<cache, v_ip, v_body, v_status, v_called, admitted>>
    /\ UNCHANGED viewFrame

\* lines 131-132, 166-170
CheckRateLimitDeny(w) ==
    /\ v_pc[w] = "read" /\ v_cur[w] >= RATE_LIMIT_MAX_REQUESTS
    /\ Respond(w, 429)
    /\ UNCHANGED <<cache, admitted, v_called>>
    /\ UNCHANGED viewFrame

\* lines 135-136: cache.set(cache_key, current_requests + 1, window_seconds)
CheckRateLimitAllow(w) ==
    /\ v_pc[w] = "read" /\ v_cur[w] < RATE_LIMIT_MAX_REQUESTS
    /\ cache' = [cache EXCEPT ![v_ip[w]] = v_cur[w] + 1]
    /\ admitted' = [admitted EXCEPT ![v_ip[w]] = @ + 1]
    /\ v_pc' = [v_pc EXCEPT ![w] = "allowed"]
    /\ UNCHANGED <<v_ip, v_body, v_cur, v_status, v_called>>
    /\ UNCHANGED viewFrame

\* lines 173-178
ViewInvalidForm(w) ==
    /\ v_pc[w] = "allowed" /\ v_body[w] = "bad_form"
    /\ Respond(w, 400)
    /\ UNCHANGED <<cache, admitted, v_called>>
    /\ UNCHANGED viewFrame

\* lines 181-205: generate_campaign_brief returns (200) or raises (500)
ViewGenerate(w) ==
    /\ v_pc[w] = "allowed" /\ v_body[w] = "ok"
    /\ v_called' = [v_called EXCEPT ![w] = TRUE]
    /\ \E status \in {200, 500} : Respond(w, status)
    /\ UNCHANGED <<cache, admitted>>
    /\ UNCHANGED viewFrame

\* line 135: the key of an IP expires window_seconds after it was last set,
\* and a new window begins for that IP
Expire(ip) ==
    /\ cache[ip] > 0
    /\ cache' = [cache EXCEPT ![ip] = 0]
    /\ admitted' = [admitted EXCEPT ![ip] = 0]
    /\ UNCHANGED <<v_pc, v_ip, v_body, v_cur, v_status, v_called>>
    /\ UNCHANGED viewFrame

Enter           == \E w \in Workers : ViewEnter(w)
InvalidJson     == \E w \in Workers : ViewInvalidJson(w)
AllowUnderTest  == \E w \in Workers : CheckRateLimitPytest(w)
ReadCounter     == \E w \in Workers : CheckRateLimitRead(w)
Deny            == \E w \in Workers : CheckRateLimitDeny(w)
Allow           == \E w \in Workers : CheckRateLimitAllow(w)
InvalidForm     == \E w \in Workers : ViewInvalidForm(w)
Generate        == \E w \in Workers : ViewGenerate(w)
WindowEnds      == \E ip \in IPs : Expire(ip)

RateInit ==
    /\ AI_PROVIDER = "test" /\ AI_PROVIDER_API_KEY = ""
    /\ pytest_loaded \in BOOLEAN
    /\ RequestIdle
    /\ ServerIdle
    /\ ParseIdle

RateNext ==
    \/ Enter
    \/ InvalidJson
    \/ AllowUnderTest
    \/ ReadCounter
    \/ Deny
    \/ Allow
    \/ InvalidForm
    \/ Generate
    \/ WindowEnds

RateSpec == RateInit /\ [][RateNext]_vars

-----------------------------------------------------------------------------
(* Properties of generate_campaign_brief, checked under Spec.              *)

Finished == pc = "done"

\* an adapter was invoked and its call was issued (or the synthetic adapter ran)
AdapterRan == Finished /\ (provider = "test" \/ network_calls > 0)

\* the adapter's provider call failed: a call went out and no text came back
TransportFailed == Finished /\ provider \in {"ollama", "openai"}
                   /\ network_calls > 0 /\ metrics = NoValue

\* the adapter of a real provider returned its text and metrics
RealCallSucceeded == Finished /\ provider \in {"ollama", "openai"} /\ metrics # NoValue

\* the hosted provider is selected and neither credential is set
NoCredential == provider = "openai"
                /\ ~Truthy(args.api_token) /\ ~Truthy(AI_PROVIDER_API_KEY)

HasTriples(v) ==
    /\ v.angles.t = "list" /\ Len(v.angles.items) = 3
    /\ v.criteria.t = "list" /\ Len(v.criteria.items) = 3

AllStrings(list) == \A i \in 1..Len(list.items) : list.items[i].t = "str"

FallbackAngles ==
    JList(<<JStr(<<"Error in generation">>), JStr(<<"Please try again">>),
            JStr(<<"Check configuration">>)>>)

FallbackCriteria ==
    JList(<<JStr(<<"Model response invalid">>), JStr(<<"JSON parsing failed">>),
            JStr(<<"Contact support">>)>>)

\* s ends with the tokens of suffix
EndsWith(s, suffix) ==
    Len(suffix) <= Len(s) /\ SubSeq(s, Len(s) - Len(suffix) + 1, Len(s)) = suffix

\* C1: whatever the provider's outcome (an answer of any content, or a failed
\* call), generate_campaign_brief returns a result and its angles and criteria
\* each have exactly 3 entries.
C1_ResultAlwaysHasTriples ==
    AdapterRan => result.kind = "returned" /\ HasTriples(result.value)

\* C2: every returned result has the GenerationResult shape: brief a string,
\* angles and criteria lists of exactly 3 strings, metrics with a boolean
\* success, whatever JSON the provider answered with.
C2_ResultHasShape ==
    (Finished /\ result.kind = "returned") =>
        /\ result.value.brief.t = "str"
        /\ HasTriples(result.value)
        /\ AllStrings(result.value.angles)
        /\ AllStrings(result.value.criteria)
        /\ "success" \in DOMAIN result.value.metrics
        /\ result.value.metrics.success \in BOOLEAN

\* C3: a failed provider call (network error, timeout, non-2xx) does not escape
\* generate_campaign_brief: it returns a degraded result with success false, an
\* error message in metrics and a non-empty brief.
C3_TransportFailureIsAbsorbed ==
    TransportFailed =>
        /\ result.kind = "returned"
        /\ result.value.metrics.success = FALSE
        /\ \E f \in {"parse_error", "error"} :
              f \in DOMAIN result.value.metrics /\ result.value.metrics[f] # <<>>
        /\ result.value.brief.t = "str" /\ result.value.brief.s # <<>>

\* C4: when a real provider answered and parse_json_response fails on its text
\* for whatever reason, the degraded envelope is returned: brief embeds the
\* message, the fixed diagnostic arrays, success false, parse_error set and
\* raw_response the provider's text untouched.
C4_ParseFailureGivesEnvelope ==
    (RealCallSucceeded /\ parse_json_response(response_text).kind = "raised") =>
        /\ result.kind = "returned"
        /\ result.value.brief.t = "str"
        /\ EndsWith(result.value.brief.s, parse_json_response(response_text).msg)
        /\ result.value.angles = FallbackAngles
        /\ result.value.criteria = FallbackCriteria
        /\ result.value.metrics.success = FALSE
        /\ "parse_error" \in DOMAIN result.value.metrics
        /\ "raw_response" \in DOMAIN result.value
        /\ result.value.raw_response = response_text

\* C5: under pytest, or with the provider configured as "test", the request is
\* served by the synthetic adapter whatever else is configured or supplied: no
\* network call, no prompt built, and the result reports success, provider
\* "test" and 3 angles and 3 criteria.
C5_SyntheticIsForced ==
    (pytest_loaded \/ AI_PROVIDER = "test") =>
        /\ network_calls = 0
        /\ ~prompts_built
        /\ pc \notin {"idle", "start"} => provider = "test"
        /\ Finished =>
              /\ result.kind = "returned"
              /\ result.value.metrics.success = TRUE
              /\ result.value.metrics.provider = "test"
              /\ HasTriples(result.value)

C5_Witness ==
    /\ Finished /\ pytest_loaded /\ AI_PROVIDER = "openai"
    /\ AI_PROVIDER_API_KEY = "sk-settings" /\ args.api_token = "sk-request"
    /\ result.kind = "returned" /\ result.value.metrics.provider = "test"

\* C6: with the hosted provider and no credential the request fails before any
\* network call and the failure propagates to the caller; no other failure of
\* a supported provider propagates.  (A provider value the code does not know
\* is a configuration mistake as well and is left out of the statement.)
C6_OnlyMissingCredentialPropagates ==
    Finished =>
        /\ NoCredential => result.kind = "raised" /\ network_calls = 0
        /\ (result.kind = "raised" /\ provider \in {"test", "ollama", "openai"})
              => NoCredential

-----------------------------------------------------------------------------
(* Properties of parse_json_response, checked under ParseSpec.             *)

Parsed == p_pc = "done"

\* what json.loads gives on the text the normaliser extracts
Decoded == JsonLoads(ExtractJson(p_text))

DecodedObject == Decoded.ok /\ Decoded.v.t = "obj"

\* the schema of section 4.4, stated on a JSON object
SchemaOk(o) ==
    /\ ObjHas(o, <<"brief">>) /\ ObjHas(o, <<"angles">>) /\ ObjHas(o, <<"criteria">>)
    /\ ObjGet(o, <<"brief">>).t = "str"
    /\ WordCount(ObjGet(o, <<"brief">>).s) >= 10
    /\ ObjGet(o, <<"angles">>).t = "list" /\ Len(ObjGet(o, <<"angles">>).items) = 3
    /\ ObjGet(o, <<"criteria">>).t = "list" /\ Len(ObjGet(o, <<"criteria">>).items) = 3

\* C7: a decoded JSON object is accepted exactly when brief, angles and
\* criteria are present, brief is a string of at least 10 words and angles and
\* criteria are lists of exactly 3; the sentence count of brief plays no part,
\* and the accepted object is returned unchanged.
C7_AcceptsExactlySchema ==
    (Parsed /\ DecodedObject) =>
        /\ p_out.kind = "returned" <=> SchemaOk(Decoded.v)
        /\ p_out.kind = "returned" => p_out.value = Decoded.v

C7_Witness ==
    /\ Parsed /\ DecodedObject /\ p_out.kind = "returned"
    /\ SentenceCount(ObjGet(p_out.value, <<"brief">>).s) > 8
    /\ ObjHas(p_out.value, <<"criteria">>)

\* C8: when no schema-valid JSON object is recovered from the raw text,
\* parse_json_response fails with ValueError and with no other exception.
C8_FailsOnlyWithValueError ==
    (Parsed /\ ~(DecodedObject /\ SchemaOk(Decoded.v))) =>
        p_out.kind = "raised" /\ p_out.exc = "ValueError"

TwoAngles(o) ==
    /\ ObjHas(o, <<"angles">>)
    /\ ObjGet(o, <<"angles">>).t = "list" /\ Len(ObjGet(o, <<"angles">>).items) = 2

AnglesMessage == <<"Must have exactly 3 content angles">>

\* the rules checked before the angles rule all pass
BriefRulesPass(o) ==
    /\ ObjHas(o, <<"brief">>) /\ ObjHas(o, <<"criteria">>)
    /\ ObjGet(o, <<"brief">>).t = "str"
    /\ WordCount(ObjGet(o, <<"brief">>).s) >= 10

\* C9 as stated: a response with exactly 2 angles is rejected with the message
\* "Must have exactly 3 content angles", whatever its other fields hold.
C9_TwoAnglesAlwaysCardinalityError ==
    (Parsed /\ DecodedObject /\ TwoAngles(Decoded.v)) =>
        p_out.kind = "raised" /\ EndsWith(p_out.msg, AnglesMessage)

\* C9 amended: a response with exactly 2 angles is always rejected with a
\* ValueError; its message is "Invalid JSON response: Must have exactly 3
\* content angles" when brief and criteria are present and brief is a string
\* of at least 10 words, and the message of the earlier rule otherwise.
C9_TwoAnglesRejected ==
    (Parsed /\ DecodedObject /\ TwoAngles(Decoded.v)) =>
        /\ p_out.kind = "raised" /\ p_out.exc = "ValueError"
        /\ BriefRulesPass(Decoded.v) <=>
              p_out.msg = <<"Invalid JSON response: ">> \o AnglesMessage

C9_Witness ==
    /\ Parsed /\ DecodedObject /\ TwoAngles(Decoded.v) /\ BriefRulesPass(Decoded.v)
    /\ ObjGet(Decoded.v, <<"criteria">>).t # "list"
    /\ p_out.kind = "raised"
    /\ p_out.msg = <<"Invalid JSON response: ">> \o AnglesMessage

\* the input is a schema-valid object serialised by json.dumps
ValidDocument == p_in.kind = "doc" /\ p_in.doc.t = "obj" /\ SchemaOk(p_in.doc)

\* C10 as stated: the serialisation of every schema-valid object, bare or
\* surrounded by whitespace or by explanatory prose, parses to an equal object.
C10_RoundTripAnyProse ==
    (Parsed /\ ValidDocument
        /\ p_in.wrap \in {"bare", "blanks", "prose", "prose_braces_before",
                          "prose_braces_after", "prose_fence"}) =>
        p_out = Returned(p_in.doc)

\* C10 amended: the serialisation of a schema-valid object of strings none of
\* which contains the json fence marker parses to an equal object, bare or
\* surrounded by whitespace or by prose that holds no brace and no json fence
\* marker.
C10_RoundTrip ==
    (Parsed /\ ValidDocument
        /\ ~PyIn(JsonFence, JsonDumps(p_in.doc, FALSE))
        /\ p_in.wrap \in {"bare", "blanks", "prose"}) =>
        p_out = Returned(p_in.doc)

C10_Witness ==
    /\ Parsed /\ ValidDocument /\ p_in.wrap = "prose"
    /\ PyIn(<<"}", "{">>, JsonDumps(p_in.doc, FALSE))
    /\ ObjHas(p_in.doc, <<"note">>)
    /\ p_out = Returned(p_in.doc)

\* ---------------------------------------------------------------------------
\* C11  No retries: one execution of generate_campaign_brief issues at most one
\* provider call; once an adapter has been called (successfully or not) no step
\* of the request issues another one, and a provider call that fails ends the
\* request in that very step.
C11_NoRetry ==
    [][ /\ network_calls' <= 1
        /\ (pc \in {"called", "done"} => network_calls' = network_calls)
        /\ (network_calls' > network_calls /\ metrics' = NoValue => pc' = "done")
      ]_vars

\* a request whose single provider call failed has returned to its caller
C11_Witness ==
    /\ pc = "done" /\ provider = "ollama"
    /\ network_calls = 1 /\ metrics = NoValue /\ result.kind = "raised"

\* ---------------------------------------------------------------------------
\* the text the normaliser is said to select: inside a json-tagged fence the
\* interior up to the next closing fence, or up to the end of the text when no
\* closing fence follows; else the span from the first "{" to the last "}";
\* else the whole trimmed text
SelectedText(raw) ==
    LET text == PyStrip(raw)
    IN  IF PyIn(JsonFence, text)
        THEN LET start == PyFind(text, JsonFence, 0) + Len(JsonFence)
                 end   == PyFind(text, Fence, start)
             IN  PyStrip(PySlice(text, start, IF end = -1 THEN Len(text) ELSE end))
        ELSE IF PyIn(<<"{">>, text) /\ PyIn(<<"}">>, text)
        THEN PySlice(text, PyFind(text, <<"{">>, 0), PyRFind(text, <<"}">>) + 1)
        ELSE text

\* C12  The text handed to the JSON parser is the fence interior, else the
\* first-"{"-to-last-"}" span, else the whole trimmed text; and a schema-valid
\* object after a json-tagged opening fence that is never closed loses no
\* character: it is parsed and returned.
C12_SelectsWithoutLoss ==
    Parsed =>
        /\ ExtractJson(p_text) = SelectedText(p_text)
        /\ (ValidDocument /\ p_in.wrap = "open_fence" => p_out = Returned(p_in.doc))

\* ---------------------------------------------------------------------------
\* the OpenAI adapter has resolved its credential (line 162)
CredentialResolved == token # "unset"

\* C13  One request works on one snapshot of the configuration: the credential
\* the OpenAI adapter resolves is the request's own api_token or else the
\* AI_PROVIDER_API_KEY that was configured when the request read AI_PROVIDER,
\* whatever set_provider writes in between.
C13_SingleSnapshot ==
    CredentialResolved => token = OpenAIToken(args.api_token, cfg_seen.key)

\* ---------------------------------------------------------------------------
\* set_provider answers with this status in the step
Replies(status) == sp_pc # "idle" /\ sp_pc' = "idle" /\ sp_status' = status

\* the step changes what set_provider's target configuration holds
ConfigChanges ==
    \/ AI_PROVIDER' # AI_PROVIDER
    \/ AI_PROVIDER_API_KEY' # AI_PROVIDER_API_KEY
    \/ cache' # cache

\* C14  set_provider changes AI_PROVIDER, AI_PROVIDER_API_KEY or the rate-limit
\* cache only in debug mode and for a provider among test, ollama, openai; a
\* request answered 403 or 400 leaves the three unchanged from its arrival to
\* its reply; an accepted switch sets AI_PROVIDER to the requested provider,
\* clears the credential for a provider other than openai, and for openai
\* replaces it only by a non-empty api_key.
C14_SwitchFrame ==
    [][ /\ ConfigChanges =>
              /\ DEBUG /\ sp_pc \in {"entered", "provider_set", "key_set"}
              /\ sp_req.kind = "object" /\ sp_req.provider \in {"test", "ollama", "openai"}
        /\ (Replies(403) \/ Replies(400)) =>
              /\ sp_pc = "entered"
              /\ UNCHANGED <<AI_PROVIDER, AI_PROVIDER_API_KEY, cache>>
        /\ Replies(403) => ~DEBUG
        /\ (sp_pc = "entered" /\ ~DEBUG /\ sp_pc' # sp_pc) => Replies(403)
        /\ (sp_pc = "entered" /\ DEBUG /\ sp_pc' # sp_pc
                /\ (sp_req.kind = "invalid"
                     \/ (sp_req.kind = "object"
                           /\ sp_req.provider \notin {"test", "ollama", "openai"})))
              => Replies(400)
        /\ (sp_pc = "provider_set" /\ sp_pc' = "key_set") =>
              /\ AI_PROVIDER = sp_req.provider
              /\ AI_PROVIDER_API_KEY' =
                    IF sp_req.provider # "openai" THEN ""
                    ELSE IF sp_req.api_key \notin {"None", ""} THEN sp_req.api_key
                    ELSE AI_PROVIDER_API_KEY
        /\ Replies(200) =>
              /\ sp_pc = "key_set" /\ AI_PROVIDER' = sp_req.provider
              /\ (sp_req.provider # "openai" => AI_PROVIDER_API_KEY' = "")
              /\ UNCHANGED <<AI_PROVIDER, AI_PROVIDER_API_KEY>>
      ]_vars

\* an accepted switch to openai without api_key has kept the configured
\* credential
C14_Witness ==
    /\ sp_status = 200 /\ sp_pc = "idle"
    /\ AI_PROVIDER = "openai" /\ AI_PROVIDER_API_KEY = "sk-settings"

\* ---------------------------------------------------------------------------
\* the worker answers 429 in the step
Denies(w) == v_pc[w] # "idle" /\ v_pc'[w] = "idle" /\ v_status'[w] = 429

\* C15  Outside pytest, whatever the interleaving of the workers, no client
\* IP has more than RATE_LIMIT_MAX_REQUESTS requests admitted within one
\* window; and a request that is denied is answered 429 with the counter as
\* it was and without a call of generate_campaign_brief.
C15_RateLimitHolds ==
    [][ /\ ~pytest_loaded =>
              \A ip \in IPs : admitted'[ip] <= RATE_LIMIT_MAX_REQUESTS
        /\ \A w \in Workers :
              Denies(w) => /\ cache' = cache
                           /\ ~v_called'[w]
                           /\ v_pc[w] = "read"
      ]_vars


====
